---- MODULE Spec2Model ----
(***************************************************************************)
(* Data Shapley contribution scoring (agent_logic/shapley_scorer.py) and   *)
(* its caller in the scoring API (agent_logic/ml_pipeline.py).             *)
(*                                                                         *)
(* The specifications share the module's variables:                        *)
(*   SpecChunk  applies ShapleyScorer._split_into_chunks to every table    *)
(*              length and stride within the bounds;                       *)
(*   SpecTrain  applies ShapleyScorer._train_and_evaluate to every pair    *)
(*              of training and test lists within the bounds;              *)
(*   Spec       calls one of the two estimators the way                    *)
(*              run_shapley_experiment and score_contribution call them,   *)
(*              on sessions of at most MaxSessionChunks strides, and runs  *)
(*              the estimator's loop step by step;                         *)
(*   SpecFeatures applies ShapleyScorer._extract_simple_features to every  *)
(*              signal of 0..MaxSamples samples;                           *)
(*   SpecLoad   runs load_and_chunk_data on session tables that are        *)
(*              missing, lack a column or hold 0..MaxSessionChunks strides *)
(*              of rows, and hands its result to the callers;              *)
(*   SpecScore  answers one POST /api/score-contribution request from the  *)
(*              Shapley value or, failing that, from the heuristic;        *)
(*   SpecFile   splits a file with DataFileManager.split_file and merges   *)
(*              the parts back with merge_file;                            *)
(*   SpecRest   answers one POST /verify-rest request (agent_logic/main.py *)
(*              and sleep_vision.py), the contract call being a message    *)
(*              the handler waits for;                                     *)
(*   SpecSplit  runs split_large_files on one CSV file.                    *)
(*                                                                         *)
(* In SpecScore glucose levels are in tenths of a mmol/L, data             *)
(* completeness is in hundredths, and a Shapley value is a whole number of *)
(* 1/ShapleyUnit.                                                          *)
(*                                                                         *)
(* Utilities are integers: the unit is 1.0 (r2_score's upper end is 1, the *)
(* sentinel is -1).  A Shapley value is kept as the pair num/den, since    *)
(* the code returns the float shapley_value / num_coalitions.              *)
(***************************************************************************)
EXTENDS Integers, Sequences, FiniteSets, TLC

VARIABLES
    pc,                  \* position of the running operation
    chunk_size_samples,  \* ShapleyScorer.chunk_size_samples
    data_len,            \* len(data) of the table given to _split_into_chunks
    chunks,              \* list returned by _split_into_chunks
    caller,              \* "experiment" | "api" | "none"
    mode,                \* "within" | "between" | "none"
    arg_chunks,          \* session_chunks / session1_chunks argument
    arg_test_chunks,     \* session2_chunks argument (between mode)
    target_chunk_id,     \* argument
    num_coalitions,      \* argument
    target_chunk,        \* local
    other_chunks,        \* local
    i,                   \* loop counter of the estimator
    shapley_value,       \* running sum
    coalition_size,      \* local, last iteration
    coalition,           \* local, last iteration
    test_set,            \* [test_chunk] (within) or test_chunks (between)
    eval_without,        \* this pass's call _train_and_evaluate(coalition, test)
    eval_with,           \* this pass's call _train_and_evaluate(coalition + [target], test)
    marginal_sum,        \* history: sum of the marginal contributions computed so far
    marginal_count,      \* history: number of iterations that computed one
    evaluations,         \* history: number of _train_and_evaluate calls of this estimator call
    result,              \* value returned by the estimator
    train_chunks,        \* argument of _train_and_evaluate (SpecTrain)
    test_chunks,         \* argument of _train_and_evaluate (SpecTrain)
    utility,             \* outcome of _train_and_evaluate (SpecTrain)
    fnirs_len,           \* len(fnirs_data) given to _extract_simple_features
    features,            \* shape of the array it returns (SpecFeatures)
    tables,              \* the two session tables on disk (SpecLoad)
    loaded,              \* outcome of load_and_chunk_data (SpecLoad)
    request,             \* POST /api/score-contribution: the request and what
                         \* the steps before the scoring find (SpecScore)
    response,            \* the response sent (SpecScore)
    file_size,           \* bytes of the file given to split_file (SpecFile)
    num_parts,           \* argument of split_file
    part_files,          \* the part files on disk: part number -> content
    merged,              \* content of the file merge_file writes
    rest_request,        \* POST /verify-rest: the request, the photo behind
                         \* its data URI and the server's configuration (SpecRest)
    vision_result,       \* local of verify_rest
    contract_calls,      \* the function_call requests sent to the contract
    rest_response,       \* the response sent (SpecRest)
    csv_file,            \* the file split_large_files looks at (SpecSplit)
    force,               \* argument of split_large_files
    split_results        \* split_results of split_large_files

vars == << pc, chunk_size_samples, data_len, chunks, caller, mode, arg_chunks, arg_test_chunks,
           target_chunk_id, num_coalitions, target_chunk, other_chunks, i,
           shapley_value, coalition_size, coalition, test_set, eval_without,
           eval_with, marginal_sum, marginal_count, evaluations, result,
           train_chunks, test_chunks, utility, fnirs_len, features,
           tables, loaded, request, response, file_size, num_parts,
           part_files, merged, rest_request, vision_result, contract_calls,
           rest_response, csv_file, force, split_results >>

chunkVars == << data_len, chunks >>

callVars == << caller, mode, arg_chunks, arg_test_chunks, target_chunk_id,
               num_coalitions, target_chunk, other_chunks >>

iterVars == << i, shapley_value, coalition_size, coalition, test_set,
               eval_without, eval_with, marginal_sum, marginal_count,
               evaluations, result >>

trainVars == << train_chunks, test_chunks, utility >>

featVars == << fnirs_len, features >>

loadVars == << tables, loaded >>

\* The variables of the specifications other than Spec, SpecChunk and
\* SpecTrain, and those of the first three.
apiVars == << request, response >>

fileVars == << file_size, num_parts, part_files, merged >>

restVars == << rest_request, vision_result, contract_calls, rest_response >>

scanVars == << csv_file, force, split_results >>

extVars == << featVars, loadVars, apiVars, fileVars, restVars, scanVars >>

coreVars == << chunk_size_samples, chunkVars, callVars, iterVars, trainVars >>

(***************************************************************************)
(* Bounds of the model.                                                    *)
(***************************************************************************)
MaxChunkSize == 10      \* SpecChunk: strides of 1..MaxChunkSize rows
MaxRows == 24           \* SpecChunk: tables of 0..MaxRows rows
MaxSessionChunks == 3   \* Spec: a session table holds 0..MaxSessionChunks strides
MaxCoalitions == 2      \* Spec: num_coalitions is 1..MaxCoalitions
R2Below == 1            \* r2_score ranges over -(1 + R2Below)..1
ShortChunkSize == 20    \* Spec: the stride of the scorer called directly
MaxPointTens == 10      \* SpecScore: 0, 10, .. 10 * MaxPointTens data points
ShapleyUnit == 20       \* SpecScore: Shapley values are multiples of 1/ShapleyUnit
MaxShapley == 8         \* SpecScore: Shapley values of -MaxShapley..MaxShapley units
MaxFileSize == 100      \* SpecFile: files of 0..MaxFileSize bytes
MaxParts == 100         \* SpecFile: split_file with num_parts of 1..MaxParts
MaxKeywords == 2        \* SpecRest: 0..MaxKeywords keywords of each list in the text
MaxMultiples == 3       \* SpecSplit: files of up to MaxMultiples times the limit
MaxSlack == 2           \* SpecSplit: and up to MaxSlack bytes off a multiple

Min(a, b) == IF a < b THEN a ELSE b

Max(a, b) == IF a > b THEN a ELSE b

NoChunk == [chunk_id |-> -1, session_id |-> "none", start_idx |-> 0,
            rows |-> 0, glucose_rows |-> 0]

(***************************************************************************)
(* DataChunk.  fnirs_data and glucose_data are kept by their lengths       *)
(* (rows, glucose_rows); start_idx is the table row start_time is read     *)
(* from; duration is rows / 10.                                            *)
(***************************************************************************)
DataChunk(fnirs_rows, glucose_rows, start_idx, chunk_id, session_id) ==
    [chunk_id |-> chunk_id, session_id |-> session_id, start_idx |-> start_idx,
     rows |-> fnirs_rows, glucose_rows |-> glucose_rows]

\* DataChunk.__eq__: equality on chunk_id and session_id only.
ChunkEq(a, b) == a.chunk_id = b.chunk_id /\ a.session_id = b.session_id

\* c in lst, for a list of DataChunk (uses __eq__).
InList(c, lst) == \E k \in 1..Len(lst) : ChunkEq(lst[k], c)

\* ShapleyScorer.__init__: int(chunk_size_minutes * 60 * 10).
ChunkSizeSamples(chunk_size_minutes) == chunk_size_minutes * 60 * 10

(***************************************************************************)
(* _split_into_chunks.                                                     *)
(***************************************************************************)
\* A variant that keeps a stride only above 80%.
KeepChunkStrict(len, size) == 10 * len > 8 * size

\* len(chunk_data) >= self.chunk_size_samples * 0.8.  The product is the
\* double nearest to 0.8 * size, which is 0.8 * size itself whenever that is
\* an integer, so the comparison with an integer length is the exact one.
KeepChunk(len, size) == 10 * len >= 8 * size

\* A variant that does not clamp the stride to the table.
StrideEndUnclamped(start_idx, size, n) == start_idx + size

\* end_idx = min(start_idx + self.chunk_size_samples, len(data))
StrideEnd(start_idx, size, n) == Min(start_idx + size, n)

\* The loop body from start_idx on; acc is `chunks`, chunk_id the counter.
RECURSIVE SplitFrom(_, _, _, _, _, _)
SplitFrom(n, size, session_id, start_idx, chunk_id, acc) ==
    IF start_idx >= n
    THEN acc
    ELSE LET end_idx == StrideEnd(start_idx, size, n)
             len == end_idx - start_idx
         IN  IF KeepChunk(len, size)
             THEN SplitFrom(n, size, session_id, start_idx + size, chunk_id + 1,
                            Append(acc, DataChunk(len, len, start_idx,
                                                  chunk_id, session_id)))
             ELSE SplitFrom(n, size, session_id, start_idx + size, chunk_id, acc)

SplitIntoChunks(n, size, session_id) ==
    SplitFrom(n, size, session_id, 0, 0, << >>)

(***************************************************************************)
(* _extract_simple_features and _train_and_evaluate.                       *)
(***************************************************************************)
window_size == 60

\* A sentinel of zero.
SentinelZero == 1 - 1

\* return -1.0, lines 247, 273, 301 and 318
Sentinel == -1

\* What the numeric code of one _train_and_evaluate call does: the statement
\* that raises, if any, and the value r2_score returns.
RaiseSites == {"none", "extract_train", "stack_train", "extract_test",
               "stack_test", "fit", "predict", "score"}

R2Values == (Sentinel - R2Below)..1

\* float("nan"), written as a number no utility, sum or mean can reach.
NaN == 999

IsNaN(x) == x = NaN

\* a + b and a - b on floats: nan when either operand is nan.
FloatAdd(a, b) == IF IsNaN(a) \/ IsNaN(b) THEN NaN ELSE a + b

FloatSub(a, b) == IF IsNaN(a) \/ IsNaN(b) THEN NaN ELSE a - b

\* max(a, b) of Python: a unless b > a, and no comparison with nan is true.
PyMax(a, b) == IF ~IsNaN(a) /\ ~IsNaN(b) /\ b > a THEN b ELSE a

\* r2_score(test_glucose, predictions), line 311: nan, with a warning, for
\* fewer than two samples; the value of the fit otherwise.
R2Score(test_rows, r2) == IF test_rows < 2 THEN NaN ELSE r2

FitEnvs == [raises : RaiseSites, r2 : R2Values]

\* A test that drops a window of exactly half the size.
WindowKeptStrict(len) == 2 * len > window_size

\* len(window) >= window_size * 0.5, the test of both window loops.
WindowKept(len) == 2 * len >= window_size

\* Number of windows kept by a loop `for start_idx in range(0, n, window_size)`.
RECURSIVE WindowsFrom(_, _)
WindowsFrom(n, start_idx) ==
    IF start_idx >= n
    THEN 0
    ELSE LET len == Min(start_idx + window_size, n) - start_idx
         IN  (IF WindowKept(len) THEN 1 ELSE 0)
             + WindowsFrom(n, start_idx + window_size)

\* The window loops run on every series a state of the model can hold; their
\* counts are tabulated once, for the series lengths 0..MaxSeries.
MaxSeries == 3 * 60 * 10

WindowTable == [n \in 1..MaxSeries |-> WindowsFrom(n, 0)] \o << >>

Windows(n) == IF n = 0 THEN 0 ELSE WindowTable[n]

\* len(_extract_simple_features(fnirs_data)): rows of the feature matrix.
ExtractSimpleFeatures(fnirs_rows) ==
    IF fnirs_rows = 0 THEN 0 ELSE Windows(fnirs_rows)

\* The two wavelength columns of a chunk's signal, line 140.
Channels == 2

\* mean, std, min and max of one channel, lines 343-348.
StatsPerChannel == 4

\* np.array([]).reshape(0, 8), lines 323 and 353.
EmptyFeatureColumns == 8

\* The shape of the array _extract_simple_features returns.
FeatureShape(fnirs_rows) ==
    LET rows == ExtractSimpleFeatures(fnirs_rows)
    IN  IF rows = 0
        THEN [rows |-> 0, cols |-> EmptyFeatureColumns]
        ELSE [rows |-> rows, cols |-> StatsPerChannel * Channels]

\* len(chunk_glucose) after the window loop over chunk.glucose_data.
ChunkGlucose(glucose_rows) == Windows(glucose_rows)

\* A test that never skips a chunk.
SkipsChunkNever(chunk_features) == chunk_features < 0

\* if len(chunk_features) == 0: continue, lines 255 and 284
SkipsChunk(chunk_features) == chunk_features = 0

\* A test that takes every pair of counts for equal.
LengthsAgreeAlways(chunk_glucose, chunk_features) ==
    chunk_glucose >= 0 /\ chunk_features >= 0

\* if len(chunk_glucose) == len(chunk_features), lines 268 and 296
LengthsAgree(chunk_glucose, chunk_features) == chunk_glucose = chunk_features

\* Whether the loop body reaches the two appends for this chunk.
ChunkAppended(c) ==
    LET chunk_features == ExtractSimpleFeatures(c.rows)
    IN  /\ ~SkipsChunk(chunk_features)
        /\ LengthsAgree(ChunkGlucose(c.glucose_rows), chunk_features)

\* The chunks of the list whose features and glucose are appended, in order.
AppendedChunks(lst) == SelectSeq(lst, ChunkAppended)

\* The rows a chunk adds to the feature list: features_list.append(chunk_features).
ChunkRows(c) ==
    IF ChunkAppended(c) THEN ExtractSimpleFeatures(c.rows) ELSE 0

\* The values a chunk adds to the glucose list: glucose_list.extend(chunk_glucose).
ChunkTargets(c) ==
    IF ChunkAppended(c) THEN ChunkGlucose(c.glucose_rows) ELSE 0

\* len(np.vstack(features_list))
RECURSIVE FeatureRows(_)
FeatureRows(lst) ==
    IF lst = << >> THEN 0
    ELSE ChunkRows(Head(lst)) + FeatureRows(Tail(lst))

\* len(np.array(glucose_list))
RECURSIVE GlucoseRows(_)
GlucoseRows(lst) ==
    IF lst = << >> THEN 0
    ELSE ChunkTargets(Head(lst)) + GlucoseRows(Tail(lst))

\* The arrays built so far: `sides` is 0 before train_features is stacked,
\* 1 once the training pair exists, 2 once the test pair exists as well.
Stacked(train, test, sides) ==
    [train_features |-> IF sides >= 1 THEN FeatureRows(train) ELSE 0,
     train_glucose  |-> IF sides >= 1 THEN GlucoseRows(train) ELSE 0,
     test_features  |-> IF sides >= 2 THEN FeatureRows(test) ELSE 0,
     test_glucose   |-> IF sides >= 2 THEN GlucoseRows(test) ELSE 0,
     sides |-> sides]

Returned(v, extracted, fitted, arrays) ==
    [kind |-> "return", value |-> v, raised |-> "none",
     extracted |-> extracted, fitted |-> fitted, arrays |-> arrays]

Raised(site, extracted, fitted, arrays) ==
    [kind |-> "raise", value |-> 0, raised |-> site,
     extracted |-> extracted, fitted |-> fitted, arrays |-> arrays]

\* The body of the try block, lines 245-314.  `extracted` counts the calls of
\* _extract_simple_features, `fitted` tells whether model.fit was reached,
\* `raised` names the statement that raised, `arrays` holds the row counts of
\* the arrays stacked before the body ended.
TryBody(train, test, env) ==
    IF train = << >> THEN Returned(Sentinel, 0, FALSE, Stacked(train, test, 0))
    ELSE IF env.raises = "extract_train"
         THEN Raised("extract_train", 1, FALSE, Stacked(train, test, 0))
    ELSE IF AppendedChunks(train) = << >>
         THEN Returned(Sentinel, Len(train), FALSE, Stacked(train, test, 0))
    ELSE IF env.raises = "stack_train"
         THEN Raised("stack_train", Len(train), FALSE, Stacked(train, test, 0))
    ELSE IF test # << >> /\ env.raises = "extract_test"
         THEN Raised("extract_test", Len(train) + 1, FALSE,
                     Stacked(train, test, 1))
    ELSE IF AppendedChunks(test) = << >>
         THEN Returned(Sentinel, Len(train) + Len(test), FALSE,
                       Stacked(train, test, 1))
    ELSE IF env.raises = "stack_test"
         THEN Raised("stack_test", Len(train) + Len(test), FALSE,
                     Stacked(train, test, 1))
    ELSE IF env.raises \in {"fit", "predict", "score"}
         THEN Raised(env.raises, Len(train) + Len(test), TRUE,
                     Stacked(train, test, 2))
    ELSE Returned(PyMax(R2Score(GlucoseRows(test), env.r2), Sentinel),
                  Len(train) + Len(test), TRUE, Stacked(train, test, 2))

\* A handler that covers model.fit only.
ExceptHandlerFitOnly(r) ==
    IF r.kind = "raise" /\ r.raised = "fit"
    THEN [r EXCEPT !.kind = "return", !.value = Sentinel]
    ELSE r

\* except Exception as e: ... return -1.0
ExceptHandler(r) ==
    IF r.kind = "raise"
    THEN [r EXCEPT !.kind = "return", !.value = Sentinel]
    ELSE r

TrainAndEvaluate(train, test, env) == ExceptHandler(TryBody(train, test, env))

\* The values a call can return, over everything the numeric code can do.
Utilities(train, test) ==
    {TrainAndEvaluate(train, test, e).value : e \in FitEnvs}

(***************************************************************************)
(* Values of the variables an operation has not set yet.                   *)
(***************************************************************************)
NoEval == [train |-> << >>, test |-> << >>, value |-> 0]

NoResult == [num |-> 0, den |-> 0]

NoArrays == [train_features |-> 0, train_glucose |-> 0,
             test_features |-> 0, test_glucose |-> 0, sides |-> 0]

NoUtility == [kind |-> "none", value |-> 0, raised |-> "none",
              extracted |-> 0, fitted |-> FALSE, arrays |-> NoArrays]

IdleChunk == /\ data_len = 0
             /\ chunks = << >>

IdleCall == /\ caller = "none"
            /\ mode = "none"
            /\ arg_chunks = << >>
            /\ arg_test_chunks = << >>
            /\ target_chunk_id = 0
            /\ num_coalitions = 0
            /\ target_chunk = NoChunk
            /\ other_chunks = << >>

IdleIter == /\ i = 0
            /\ shapley_value = 0
            /\ coalition_size = 0
            /\ coalition = << >>
            /\ test_set = << >>
            /\ eval_without = NoEval
            /\ eval_with = NoEval
            /\ marginal_sum = 0
            /\ marginal_count = 0
            /\ evaluations = 0
            /\ result = NoResult

IdleTrain == /\ train_chunks = << >>
             /\ test_chunks = << >>
             /\ utility = NoUtility

NoFeatures == [rows |-> 0, cols |-> 0]

IdleFeat == /\ fnirs_len = 0
            /\ features = NoFeatures

NoTable == [kind |-> "none", rows |-> 0]

NoTables == [session1 |-> NoTable, session2 |-> NoTable]

NoLoad == [status |-> "none", session1_chunks |-> << >>,
           session2_chunks |-> << >>]

IdleLoad == /\ tables = NoTables
            /\ loaded = NoLoad

\* A request with data, a glucose level of 5.5 mmol/L and no data point, on
\* a server whose session files cannot be loaded.
BaseRequest ==
    [fnirs_empty |-> FALSE, glucose_level |-> 55, preprocess_ok |-> TRUE,
     points |-> 0, duration_seconds |-> 0, samples_per_epoch |-> 300,
     shapley_raises |-> "load", session1_len |-> 0, session2_len |-> 0,
     session_values |-> << 0, 0 >>, predicted_raw |-> 55]

NoResponse ==
    [status |-> 0, raised |-> 0, path |-> "none", contribution_score |-> 0,
     reward_points |-> 0, user_shapley_value |-> 0, simulations |-> 0]

IdleApi == /\ request = BaseRequest
           /\ response = NoResponse

IdleFile == /\ file_size = 0
            /\ num_parts = 0
            /\ part_files = << >>
            /\ merged = << >>

\* A photo that is not an image data URI.
NoPhoto ==
    [prefix_ok |-> FALSE, decodable |-> FALSE, network |-> "no_key",
     image |-> "plain", sleep_score |-> 0, non_sleep_score |-> 0,
     mentions_sleep |-> FALSE, parse_raises |-> FALSE]

NoRestRequest ==
    [accountId |-> "none", photo |-> NoPhoto,
     sleep_vision_available |-> FALSE, agent_configured |-> FALSE]

NoVision ==
    [is_valid_sleep_surface |-> FALSE, confidence |-> [num |-> 0, den |-> 1],
     source |-> "none"]

NoRestResponse ==
    [http |-> 0, status |-> "none", isSleepingSurface |-> FALSE,
     transaction_hash |-> "none"]

IdleRest == /\ rest_request = NoRestRequest
            /\ vision_result = NoVision
            /\ contract_calls = << >>
            /\ rest_response = NoRestResponse

NoCsvFile == [size |-> 0, is_split_part |-> FALSE]

IdleScan == /\ csv_file = NoCsvFile
            /\ force = FALSE
            /\ split_results = << >>

IdleExt == /\ IdleFeat /\ IdleLoad /\ IdleApi /\ IdleFile /\ IdleRest
           /\ IdleScan

IdleCore == /\ chunk_size_samples = 0
            /\ IdleChunk /\ IdleCall /\ IdleIter /\ IdleTrain

(***************************************************************************)
(* SpecChunk: _split_into_chunks on every table of 0..MaxRows rows with    *)
(* every stride of 1..MaxChunkSize rows.                                   *)
(***************************************************************************)
InitChunk ==
    /\ pc = "split_call"
    /\ chunk_size_samples \in 1..MaxChunkSize
    /\ data_len \in 0..MaxRows
    /\ chunks = << >>
    /\ IdleCall /\ IdleIter /\ IdleTrain /\ IdleExt

Split ==
    /\ pc = "split_call"
    /\ chunks' = SplitIntoChunks(data_len, chunk_size_samples, "session1")
    /\ pc' = "split_done"
    /\ UNCHANGED << chunk_size_samples, data_len, callVars,
                    iterVars, trainVars, extVars >>

NextChunk == Split

SpecChunk == InitChunk /\ [][NextChunk]_vars

(***************************************************************************)
(* SpecTrain: _train_and_evaluate on every training list of at most        *)
(* MaxTrainChunks chunks and test list of at most MaxTestChunks chunks,    *)
(* the signal and the target series of a chunk having a length of          *)
(* SeriesLens each.                                                        *)
(***************************************************************************)
MaxTrainChunks == 2

MaxTestChunks == 1

\* No row, a window one sample short, one window of exactly 50%.
SeriesLens == {0, window_size \div 2 - 1, window_size \div 2}

\* A signal and a target series of two windows.
TwoWindows == window_size + window_size \div 2

EvalChunks ==
    {DataChunk(r, g, 0, 0, "session1") : r \in SeriesLens, g \in SeriesLens}
    \cup {DataChunk(TwoWindows, TwoWindows, 0, 0, "session1")}

ChunkLists(max) == UNION {[1..n -> EvalChunks] : n \in 0..max}

InitTrain ==
    /\ pc = "train_call"
    /\ chunk_size_samples = 0
    /\ train_chunks \in ChunkLists(MaxTrainChunks)
    /\ test_chunks \in ChunkLists(MaxTestChunks)
    /\ utility = NoUtility
    /\ IdleChunk /\ IdleCall /\ IdleIter /\ IdleExt

TrainEval ==
    /\ pc = "train_call"
    /\ utility' \in {TrainAndEvaluate(train_chunks, test_chunks, env) :
                       env \in FitEnvs}
    /\ pc' = "train_done"
    /\ UNCHANGED << chunk_size_samples, chunkVars, callVars,
                    iterVars, train_chunks, test_chunks, extVars >>

NextTrain == TrainEval

SpecTrain == InitTrain /\ [][NextTrain]_vars


(***************************************************************************)
(* SpecFeatures: _extract_simple_features on every signal of 0..MaxSamples *)
(* samples.                                                                *)
(***************************************************************************)
MaxSamples == 150

InitFeatures ==
    /\ pc = "extract_call"
    /\ fnirs_len \in 0..MaxSamples
    /\ features = NoFeatures
    /\ IdleCore /\ IdleLoad /\ IdleApi /\ IdleFile /\ IdleRest /\ IdleScan

Extract ==
    /\ pc = "extract_call"
    /\ features' = FeatureShape(fnirs_len)
    /\ pc' = "extract_done"
    /\ UNCHANGED << coreVars, fnirs_len, loadVars, apiVars, fileVars,
                    restVars, scanVars >>

NextFeatures == Extract

SpecFeatures == InitFeatures /\ [][NextFeatures]_vars

(***************************************************************************)
(* Spec: the two estimators under their callers.                           *)
(***************************************************************************)
Init ==
    /\ pc = "start"
    /\ chunk_size_samples = 0
    /\ IdleChunk /\ IdleCall /\ IdleIter /\ IdleTrain /\ IdleExt

\* Tables of whole strides (SpecChunk covers the partial ones).
SessionRows(size) == {k * size : k \in 0..MaxSessionChunks}

\* load_and_chunk_data, lines 72-77: the chunk lists a session table gives.
Sessions(size, session_id) ==
    {SplitIntoChunks(n, size, session_id) : n \in SessionRows(size)}

\* [c for c in session_chunks if c.chunk_id != target_chunk_id]
OtherChunks(lst, tid) == SelectSeq(lst, LAMBDA c : c.chunk_id # tid)

\* if len(other_chunks) < 2: return 0.0  (within-session)
WithinMinOthers == 2

\* A guard that lets an empty pool through.
BetweenMinOthersNone == 1 - 1

\* if len(other_chunks) < 1: return 0.0  (between-session)
BetweenMinOthers == 1

\* session_chunks[target_chunk_id] with an index of 0 or more: IndexError
\* unless the index is below the length of the list.
IndexInRange(lst, tid) == tid < Len(lst)

\* Lines 166-172 and 212-221: the locals, and the early return.  An index
\* out of range raises at line 166 (212) and the call ends there.
Enter(who, size, m, lst, tests, tid, n) ==
    LET others == OtherChunks(lst, tid)
        least == IF m = "within" THEN WithinMinOthers ELSE BetweenMinOthers
    IN  /\ caller' = who
        /\ chunk_size_samples' = size
        /\ mode' = m
        /\ arg_chunks' = lst
        /\ arg_test_chunks' = tests
        /\ target_chunk_id' = tid
        /\ num_coalitions' = n
        /\ i' = 0
        /\ shapley_value' = 0
        /\ IF ~IndexInRange(lst, tid)
           THEN /\ target_chunk' = NoChunk
                /\ other_chunks' = << >>
                /\ result' = NoResult
                /\ pc' = "raised"
           ELSE /\ target_chunk' = lst[tid + 1]
                /\ other_chunks' = others
                /\ IF Len(others) < least
                   THEN /\ result' = [num |-> 0, den |-> 1]
                        /\ pc' = "done"
                   ELSE /\ result' = NoResult
                        /\ pc' = "loop"
        /\ UNCHANGED << chunkVars, coalition_size, coalition, test_set,
                        eval_without, eval_with, marginal_sum, marginal_count,
                        evaluations, trainVars, extVars >>

\* run_demo_experiments: ShapleyScorer(chunk_size_minutes=3.0);
\* run_shapley_experiment, lines 368 and 379-386: session 1 is loaded and
\* chunked, chunk_id is in range(min(5, len(session1_chunks))).
CallExperimentWithin ==
    /\ pc = "start"
    /\ \E s1 \in Sessions(ChunkSizeSamples(3), "session1") :
         \E chunk_id \in 0..(Min(5, Len(s1)) - 1), n \in 1..MaxCoalitions :
           Enter("experiment", ChunkSizeSamples(3), "within", s1, << >>,
                 chunk_id, n)

\* run_shapley_experiment, lines 368 and 387-390.
CallExperimentBetween ==
    /\ pc = "start"
    /\ \E s1 \in Sessions(ChunkSizeSamples(3), "session1"),
          s2 \in Sessions(ChunkSizeSamples(3), "session2") :
         \E chunk_id \in 0..(Min(5, Len(s1)) - 1), n \in 1..MaxCoalitions :
           Enter("experiment", ChunkSizeSamples(3), "between", s1, s2,
                 chunk_id, n)

UserChunkId == 999

\* len(user_fnirs_array): a chunk with no window, a chunk of one stride.
UserRows == {1, ChunkSizeSamples(2)}

\* score_contribution, lines 442-449.
UserChunk(rows) == DataChunk(rows, rows, 0, UserChunkId, "user_contribution")

\* score_contribution: ShapleyScorer(chunk_size_minutes=2.0); lines 452,
\* 460-467 and 472-479: the user's chunk appended to a session of at least
\* 3 chunks, the target given as the last index.
CallApiWithin ==
    /\ pc = "start"
    /\ \E sid \in {"session1", "session2"}, rows \in UserRows,
          n \in 1..MaxCoalitions :
         \E sess \in Sessions(ChunkSizeSamples(2), sid) :
           /\ Len(sess) >= 3
           /\ LET sim_chunks == sess \o << UserChunk(rows) >>
              IN  Enter("api", ChunkSizeSamples(2), "within", sim_chunks,
                        << >>, Len(sim_chunks) - 1, n)

\* The strides of a scorer called directly: one too short for a window, and
\* one of exactly one window.
DirectStrides == {ShortChunkSize, window_size \div 2}

\* Tables of whole strides for the short stride; for the stride of one
\* window, tables that end in a stride of 80%, which is kept and has no
\* window.
DirectRows(size) ==
    IF size = ShortChunkSize THEN SessionRows(size)
    ELSE {k * size + (4 * size) \div 5 : k \in 0..(MaxSessionChunks - 1)}

DirectSessions(size, session_id) ==
    {SplitIntoChunks(n, size, session_id) : n \in DirectRows(size)}

\* The two estimators called as public methods of a scorer with a short
\* stride: any session lists, and any target index from 0 to one past the
\* end of the list.  The stride of one window is used within a session.
CallDirect ==
    /\ pc = "start"
    /\ \E m \in {"within", "between"}, n \in 1..MaxCoalitions,
          size \in DirectStrides :
         \E s1 \in DirectSessions(size, "session1"),
            s2 \in Sessions(size, "session2") :
           \E tid \in 0..Len(s1) :
             /\ m = "within" => s2 = << >>
             /\ m = "between" => size = ShortChunkSize
             /\ Enter("direct", size, m, s1, s2, tid, n)

\* random.randint(a, b): every integer of a..b; ValueError when there is none.
RandInt(a, b) == a..b

\* A draw up to the whole pool.
WithinSizesFull(others) == RandInt(1, Len(others))

\* coalition_size = random.randint(1, max(1, len(other_chunks) - 1))
WithinSizes(others) == RandInt(1, Max(1, Len(others) - 1))

\* coalition_size = random.randint(1, len(other_chunks))
BetweenSizes(others) == RandInt(1, Len(others))

\* The elements of lst at the positions P, from position k on.
RECURSIVE Pick(_, _, _)
Pick(lst, P, k) ==
    IF k > Len(lst) THEN << >>
    ELSE (IF k \in P THEN << lst[k] >> ELSE << >>) \o Pick(lst, P, k + 1)

\* random.sample(lst, k): k distinct positions of lst.  The sample is kept in
\* list order; its random order is read by nothing but the model fit, whose
\* result is drawn from Utilities.
RandomSample(lst, k) ==
    {Pick(lst, P, 1) : P \in {Q \in SUBSET (1..Len(lst)) : Cardinality(Q) = k}}

\* [c for c in other_chunks if c not in coalition]
RemainingChunks(others, coal) == SelectSeq(others, LAMBDA c : ~InList(c, coal))

\* A test set taken from the target's own session.
BetweenTestChunksOwn(s1, s2) == s1

\* test_chunks = session2_chunks
BetweenTestChunks(s1, s2) == s2

\* Lines 176-185: the coalition and the test chunk of one pass; a pass with
\* no chunk left for testing is given up (continue).
WithinSample ==
    /\ pc = "loop"
    /\ mode = "within"
    /\ i < num_coalitions
    /\ IF WithinSizes(other_chunks) = {}
       THEN /\ pc' = "raised"
            /\ UNCHANGED << i, coalition_size, coalition, test_set >>
       ELSE \E size \in WithinSizes(other_chunks) :
         /\ coalition_size' = size
         /\ IF RandomSample(other_chunks, size) = {}
            THEN /\ pc' = "raised"
                 /\ UNCHANGED << i, coalition, test_set >>
            ELSE \E coal \in RandomSample(other_chunks, size) :
              LET remaining_chunks == RemainingChunks(other_chunks, coal)
              IN  /\ coalition' = coal
                  /\ IF remaining_chunks = << >>
                     THEN /\ i' = i + 1
                          /\ pc' = "loop"
                          /\ UNCHANGED test_set
                     ELSE /\ \E t \in 1..Len(remaining_chunks) :
                                 test_set' = << remaining_chunks[t] >>
                          /\ pc' = "sampled"
                          /\ UNCHANGED i
    /\ eval_without' = NoEval
    /\ eval_with' = NoEval
    /\ UNCHANGED << chunk_size_samples, chunkVars, callVars, shapley_value,
                    marginal_sum, marginal_count, evaluations, result,
                    trainVars, extVars >>

\* Lines 225-226: the coalition of one pass; the test set is session 2.
BetweenSample ==
    /\ pc = "loop"
    /\ mode = "between"
    /\ i < num_coalitions
    /\ IF BetweenSizes(other_chunks) = {}
       THEN /\ pc' = "raised"
            /\ UNCHANGED << coalition_size, coalition, test_set >>
       ELSE \E size \in BetweenSizes(other_chunks) :
         /\ coalition_size' = size
         /\ IF RandomSample(other_chunks, size) = {}
            THEN /\ pc' = "raised"
                 /\ UNCHANGED << coalition, test_set >>
            ELSE /\ \E coal \in RandomSample(other_chunks, size) :
                      coalition' = coal
                 /\ test_set' = BetweenTestChunks(arg_chunks, arg_test_chunks)
                 /\ pc' = "sampled"
    /\ eval_without' = NoEval
    /\ eval_with' = NoEval
    /\ UNCHANGED << chunk_size_samples, chunkVars, callVars, i, shapley_value,
                    marginal_sum, marginal_count, evaluations, result,
                    trainVars, extVars >>

Evaluation(train, test, v) == [train |-> train, test |-> test, value |-> v]

\* A concatenation that appends to its left operand in place.
ListAfterAppend(lst, extra) == lst \o extra

\* coalition_with_target = coalition + [target_chunk]: list.__add__ builds a
\* new list; this is the left operand after the statement.
ListAfterAdd(lst, extra) == SubSeq(lst \o extra, 1, Len(lst))

\* The chunks whose samples the numeric code reads: a chunk with no window
\* is skipped before any statistic is computed (lines 333-334, 255-256).
HasWindow(c) == ~SkipsChunk(ExtractSimpleFeatures(c.rows))

\* The forest is seeded (random_state=42, line 307) and the rest of
\* _train_and_evaluate is arithmetic on its arguments: two calls that read
\* the same chunks in the same order, against the same test list, do the
\* same.
SameNumericInput(train_a, train_b) ==
    SelectSeq(train_a, HasWindow) = SelectSeq(train_b, HasWindow)

Outcomes(train, test) ==
    {TrainAndEvaluate(train, test, e) : e \in FitEnvs}

\* What the estimator sees of a call: whether it returned, and the value.
Seen(o) == [kind |-> o.kind, value |-> o.value]

\* The outcomes of the two calls of one pass.
PassOutcomes(train_without, train_with, test) ==
    IF SameNumericInput(train_without, train_with)
    THEN {<< Seen(TrainAndEvaluate(train_without, test, e)),
             Seen(TrainAndEvaluate(train_with, test, e)) >> : e \in FitEnvs}
    ELSE {Seen(o) : o \in Outcomes(train_without, test)}
         \X {Seen(o) : o \in Outcomes(train_with, test)}

\* Lines 187-196 and 228-237: the two evaluations and the accumulation.  An
\* exception leaving _train_and_evaluate would leave the estimator too.
Evaluate ==
    /\ pc = "sampled"
    /\ LET coalition_with_target == coalition \o << target_chunk >>
       IN  \E o \in PassOutcomes(coalition, coalition_with_target, test_set) :
             LET perf_without == o[1].value
                 perf_with == o[2].value
             IN  IF o[1].kind = "raise" \/ o[2].kind = "raise"
                 THEN /\ pc' = "raised"
                      /\ UNCHANGED << eval_without, eval_with, shapley_value,
                                      marginal_sum, marginal_count,
                                      evaluations, i >>
                 ELSE /\ eval_without' =
                            Evaluation(coalition, test_set, perf_without)
                      /\ eval_with' =
                            Evaluation(coalition_with_target, test_set,
                                       perf_with)
                      /\ shapley_value' =
                            FloatAdd(shapley_value,
                                     FloatSub(perf_with, perf_without))
                      /\ marginal_sum' =
                            FloatAdd(marginal_sum,
                                     FloatSub(perf_with, perf_without))
                      /\ marginal_count' = marginal_count + 1
                      /\ evaluations' = evaluations + 2
                      /\ i' = i + 1
                      /\ pc' = "loop"
    /\ coalition' = ListAfterAdd(coalition, << target_chunk >>)
    /\ UNCHANGED << chunk_size_samples, chunkVars, callVars, coalition_size,
                    test_set, result, trainVars, extVars >>

\* A return value clipped at zero.
ReturnValueClipped(sum, n) == [num |-> Max(sum, 0), den |-> n]

\* return shapley_value / num_coalitions
ReturnValue(sum, n) == [num |-> sum, den |-> n]

\* Lines 198 and 239.
Finish ==
    /\ pc = "loop"
    /\ i = num_coalitions
    /\ result' = ReturnValue(shapley_value, num_coalitions)
    /\ pc' = "done"
    /\ UNCHANGED << chunk_size_samples, chunkVars, callVars, i,
                    shapley_value, coalition_size, coalition, test_set,
                    eval_without, eval_with, marginal_sum, marginal_count,
                    evaluations, trainVars, extVars >>

Next ==
    \/ CallExperimentWithin
    \/ CallExperimentBetween
    \/ CallApiWithin
    \/ CallDirect
    \/ WithinSample
    \/ BetweenSample
    \/ Evaluate
    \/ Finish

Spec == Init /\ [][Next]_vars

(***************************************************************************)
(* SpecLoad: load_and_chunk_data and what its callers do with the result.  *)
(***************************************************************************)
\* A session table as the loader finds it: no file at any path, a file
\* without the required columns, or a file with the columns and `rows` data
\* rows (none for a file that holds its header line only).
Table(kind, rows) == [kind |-> kind, rows |-> rows]

Tables(size) ==
    {Table("missing", 0), Table("no_columns", 0)}
        \cup {Table("table", n) : n \in SessionRows(size)}

\* _load_session_data, lines 86-126: the exception it raises, if any.
LoadSessionData(table) ==
    IF table.kind = "missing" THEN "FileNotFoundError"
    ELSE IF table.kind = "no_columns" THEN "ValueError"
    ELSE "ok"

LoadFailed(error) ==
    [status |-> error, session1_chunks |-> << >>, session2_chunks |-> << >>]

\* load_and_chunk_data, lines 61-82: ensure_files_available raises for a
\* file that is not there (data_file_manager.py, line 216), then both
\* tables are read and, if neither read raises, both are chunked.
LoadAndChunkData(tbls, size) ==
    IF tbls.session1.kind = "missing" \/ tbls.session2.kind = "missing"
    THEN LoadFailed("FileNotFoundError")
    ELSE IF LoadSessionData(tbls.session1) # "ok"
         THEN LoadFailed(LoadSessionData(tbls.session1))
    ELSE IF LoadSessionData(tbls.session2) # "ok"
         THEN LoadFailed(LoadSessionData(tbls.session2))
    ELSE [status |-> "ok",
          session1_chunks |->
              SplitIntoChunks(tbls.session1.rows, size, "session1"),
          session2_chunks |->
              SplitIntoChunks(tbls.session2.rows, size, "session2")]

InitLoad ==
    /\ pc = "load_call"
    /\ \E size \in {ChunkSizeSamples(2), ChunkSizeSamples(3)} :
         /\ chunk_size_samples = size
         /\ tables \in [session1 : Tables(size), session2 : Tables(size)]
    /\ loaded = NoLoad
    /\ IdleChunk /\ IdleCall /\ IdleIter /\ IdleTrain /\ IdleFeat /\ IdleApi
    /\ IdleFile /\ IdleRest /\ IdleScan

Load ==
    /\ pc = "load_call"
    /\ loaded' = LoadAndChunkData(tables, chunk_size_samples)
    /\ pc' = IF loaded'.status = "ok" THEN "loaded" ELSE "load_failed"
    /\ UNCHANGED << coreVars, featVars, tables, apiVars, fileVars,
                    restVars, scanVars >>

\* run_shapley_experiment, lines 368-404, on the scorer of
\* run_demo_experiments: the first estimator call of the loop.  With no
\* chunk in session 1 the loop body never runs and np.min of the empty list
\* raises at line 401.
ExperimentAfterLoad ==
    /\ pc = "loaded"
    /\ chunk_size_samples = ChunkSizeSamples(3)
    /\ IF loaded.session1_chunks = << >>
       THEN /\ pc' = "experiment_failed"
            /\ UNCHANGED << coreVars, extVars >>
       ELSE \E m \in {"within", "between"}, n \in 1..MaxCoalitions :
              \E chunk_id \in 0..(Min(5, Len(loaded.session1_chunks)) - 1) :
                Enter("experiment", chunk_size_samples, m,
                      loaded.session1_chunks,
                      IF m = "between" THEN loaded.session2_chunks ELSE << >>,
                      chunk_id, n)

\* score_contribution, lines 452-481 and 510-514, on its scorer: the first
\* simulation that has a session of at least 3 chunks; a failed load, or no
\* such session, ends in the handler of line 513 (heuristic scoring).
ApiAfterLoad ==
    /\ pc \in {"loaded", "load_failed"}
    /\ chunk_size_samples = ChunkSizeSamples(2)
    /\ LET first == IF Len(loaded.session1_chunks) >= 3
                    THEN loaded.session1_chunks
                    ELSE loaded.session2_chunks
       IN  IF Len(first) < 3
           THEN /\ pc' = "fallback"
                /\ UNCHANGED << coreVars, extVars >>
           ELSE \E rows \in UserRows, n \in 1..MaxCoalitions :
                  LET sim_chunks == first \o << UserChunk(rows) >>
                  IN  Enter("api", chunk_size_samples, "within", sim_chunks,
                            << >>, Len(sim_chunks) - 1, n)

NextLoad ==
    \/ Load
    \/ ExperimentAfterLoad
    \/ ApiAfterLoad

SpecLoad == InitLoad /\ [][NextLoad]_vars


(***************************************************************************)
(* SpecScore: the handler of POST /api/score-contribution.                 *)
(***************************************************************************)
\* int(x) of the quotient num / den, den > 0: truncation towards zero.
IntTrunc(num, den) ==
    IF num >= 0 THEN num \div den ELSE -((-num) \div den)

\* A bound that bounds nothing.
ClampNone(lo, hi, v) == IF lo <= hi THEN v ELSE lo

\* min(hi, max(lo, v)), lines 498, 500, 523 and 529; max(lo, min(hi, v)),
\* lines 359 and 492.
Clamp(lo, hi, v) == Min(hi, Max(lo, v))

\* ProcessedFNIRSData.quality_score and .noise_level, in hundredths: the
\* placeholders of preprocess_fnirs_data, lines 207-208.
QualityScore == 85

NoiseLevel == 10

\* min(1.0, len(data_points) / 100.0), in hundredths.
DataCompleteness(points) == Min(100, points)

\* The value scaled without the clip to -0.1 .. 0.2.
ShapleyScoreUnclipped(v) ==
    IntTrunc((10 * v + ShapleyUnit) * 80, 3 * ShapleyUnit)

\* Lines 492-493, v in 1/ShapleyUnit: the value clipped to -0.1 .. 0.2, then
\* int(((normalized + 0.1) / 0.3) * 80).
ShapleyScore(v) ==
    LET normalized10 == Clamp(-ShapleyUnit, 2 * ShapleyUnit, 10 * v)
    IN  IntTrunc((normalized10 + ShapleyUnit) * 80, 3 * ShapleyUnit)

\* Lines 496-498: int(completeness * min(snr, 10) * 2), then 0..20.
QualityBonus(points) ==
    LET snr_capped_num == Min(QualityScore, 10 * NoiseLevel)
    IN  Clamp(0, 20, IntTrunc(DataCompleteness(points) * snr_capped_num * 2,
                              100 * NoiseLevel))

\* Line 500.
ShapleyContribution(v, points) ==
    Clamp(0, 100, ShapleyScore(v) + QualityBonus(points))

\* Lines 521-523: int(completeness * snr * 5), then 0..50.
HeuristicQuality(points) ==
    Clamp(0, 50, IntTrunc(DataCompleteness(points) * QualityScore * 5,
                          100 * NoiseLevel))

\* predict_glucose, line 359: the prediction kept within 3..15 mmol/L.
PredictedGlucose(raw) == Clamp(30, 150, raw)

Abs(x) == IF x < 0 THEN -x ELSE x

\* Lines 525-526: int(30 * max(0, 1 - glucose_error / 3.0)).
AccuracyScore(predicted, level) ==
    LET glucose_error == Abs(predicted - level)
    IN  IntTrunc(30 * Max(0, 30 - glucose_error), 30)

\* Line 527: int(min(20, duration_seconds / 15)).
DurationScore(seconds) == Min(20, IntTrunc(seconds, 15))

\* Line 529.
HeuristicContribution(req) ==
    Clamp(0, 100,
          HeuristicQuality(req.points)
          + AccuracyScore(PredictedGlucose(req.predicted_raw),
                          req.glucose_level)
          + DurationScore(req.duration_seconds))

\* The multipliers handed out in the opposite order.
RewardPointsReversed(contribution_score) ==
    IF contribution_score >= 80 THEN contribution_score * 8
    ELSE IF contribution_score >= 60 THEN contribution_score * 10
    ELSE IF contribution_score >= 40 THEN contribution_score * 12
    ELSE contribution_score * 15

\* Lines 539-546.
RewardPoints(contribution_score) ==
    IF contribution_score >= 80 THEN contribution_score * 15
    ELSE IF contribution_score >= 60 THEN contribution_score * 12
    ELSE IF contribution_score >= 40 THEN contribution_score * 10
    ELSE contribution_score * 8

\* Lines 554-560; user_shapley_value and simulations are the locals
\* user_shapley_value and len(shapley_values) of lines 484-509.
Scored(path, contribution_score, shapley) ==
    [status |-> 200, raised |-> 0, path |-> path,
     contribution_score |-> contribution_score,
     reward_points |-> RewardPoints(contribution_score),
     user_shapley_value |-> shapley.value,
     simulations |-> shapley.simulations]

\* Lines 562-568: whatever the try block raises, an HTTPException included,
\* is answered with status 500; `raised` keeps the status of the exception
\* that was caught, 0 for an exception that carries none.
Failed(raised) ==
    [status |-> 500, raised |-> raised, path |-> "none",
     contribution_score |-> 0, reward_points |-> 0,
     user_shapley_value |-> 0, simulations |-> 0]

\* len(session_chunks) >= 3, lines 463 and 471
SessionQualifies(session_len) == session_len >= 3

\* shapley_values after lines 460-480: one value per session that qualifies.
SimulationValues(req) ==
    (IF SessionQualifies(req.session1_len)
     THEN << req.session_values[1] >> ELSE << >>)
    \o (IF SessionQualifies(req.session2_len)
        THEN << req.session_values[2] >> ELSE << >>)

\* np.mean(shapley_values), line 485, of one or two values.
MeanOf(values) ==
    IF Len(values) = 1 THEN values[1] ELSE (values[1] + values[2]) \div 2

\* Step 3, lines 430-510: the value and the number of simulations, or the
\* exception that sends the handler to the heuristic.
ShapleyStep(req) ==
    IF req.shapley_raises # "none"
    THEN [ok |-> FALSE, value |-> 0, simulations |-> 0]
    ELSE IF SimulationValues(req) = << >>
         THEN [ok |-> FALSE, value |-> 0, simulations |-> 0]
    ELSE [ok |-> TRUE, value |-> MeanOf(SimulationValues(req)),
          simulations |-> Len(SimulationValues(req))]

\* extract_features, lines 234-238: range() with a step of
\* samples_per_epoch // 2 = 0 raises ValueError.
ExtractFeaturesRaises(req) ==
    /\ req.points >= req.samples_per_epoch
    /\ req.samples_per_epoch \div 2 = 0

\* The handler, lines 399-568.
ScoreContribution(req) ==
    IF req.fnirs_empty THEN Failed(400)
    ELSE IF ~(30 <= req.glucose_level /\ req.glucose_level <= 150)
         THEN Failed(400)
    ELSE IF ~req.preprocess_ok THEN Failed(0)
    ELSE IF ShapleyStep(req).ok
         THEN Scored("shapley",
                     ShapleyContribution(ShapleyStep(req).value, req.points),
                     ShapleyStep(req))
    ELSE IF ExtractFeaturesRaises(req) THEN Failed(0)
    ELSE Scored("heuristic", HeuristicContribution(req), ShapleyStep(req))

PointCounts == {10 * k : k \in 0..MaxPointTens}

ShapleyValues == (-MaxShapley)..MaxShapley

\* The values of the two simulations, in 1/ShapleyUnit, with a mean that is
\* a whole number of units.
SessionValues ==
    {v \in ShapleyValues \X ShapleyValues : (v[1] + v[2]) % 2 = 0}

\* Sessions below and at the threshold of 3 chunks.
SessionLengths == {2, 3}

\* int(30 * sampling_rate) for a rate preprocessing accepts
\* (int(60 * sampling_rate) // 2 >= 1): 1 below 1/15 Hz, 300 at 10 Hz.
EpochSamples == {1, 2, 300}

\* len(data_points) / sampling_rate, in seconds.
Durations == {0, 14, 15, 299, 300, 3000}

GlucoseLevels == {30, 55, 150}

\* The prediction before line 359, in tenths of a mmol/L.
RawPredictions == {0, 55, 85, 200}

Requests ==
    {[BaseRequest EXCEPT !.fnirs_empty = TRUE]}
    \cup {[BaseRequest EXCEPT !.glucose_level = g] : g \in {29, 151}}
    \cup {[BaseRequest EXCEPT !.preprocess_ok = FALSE]}
    \cup {[BaseRequest EXCEPT !.points = p, !.shapley_raises = "none",
                              !.session1_len = n[1], !.session2_len = n[2],
                              !.session_values = v] :
            p \in PointCounts, n \in SessionLengths \X SessionLengths,
            v \in SessionValues}
    \cup {[BaseRequest EXCEPT !.points = p, !.duration_seconds = d,
                              !.glucose_level = g, !.predicted_raw = raw,
                              !.samples_per_epoch = e,
                              !.shapley_raises = x] :
            p \in PointCounts, d \in Durations, g \in GlucoseLevels,
            raw \in RawPredictions, e \in EpochSamples,
            x \in {"parse", "load", "estimator"}}

InitScore ==
    /\ pc = "score_call"
    /\ request \in Requests
    /\ response = NoResponse
    /\ IdleCore /\ IdleFeat /\ IdleLoad /\ IdleFile /\ IdleRest /\ IdleScan

Respond ==
    /\ pc = "score_call"
    /\ response' = ScoreContribution(request)
    /\ pc' = "score_done"
    /\ UNCHANGED << coreVars, featVars, loadVars, request, fileVars,
                    restVars, scanVars >>

NextScore == Respond

SpecScore == InitScore /\ [][NextScore]_vars


(***************************************************************************)
(* SpecFile: DataFileManager.split_file followed by merge_file             *)
(* (agent_logic/data_file_manager.py).  A byte of the file is modelled by  *)
(* its position, so that two files are equal only if they hold the same    *)
(* bytes in the same order.                                                *)
(***************************************************************************)
Content(size) == [k \in 1..size |-> k]

\* The decimal digits of n.
RECURSIVE Digits(_)
Digits(n) == IF n < 10 THEN << n >> ELSE Append(Digits(n \div 10), n % 10)

\* f"{i+1:02d}", line 62: at least two digits, padded with zeros.
TwoDigits(n) == IF n < 10 THEN << 0, n >> ELSE Digits(n)

\* The part of a part file's name that follows "<stem>_part", as character
\* codes: the digits, then the dot that opens the suffix.
PartName(n) ==
    [j \in 1..Len(TwoDigits(n)) |-> 48 + TwoDigits(n)[j]] \o << 46 >>

\* a < b for two strings, character by character.
RECURSIVE StrLess(_, _)
StrLess(a, b) ==
    IF b = << >> THEN FALSE
    ELSE IF a = << >> THEN TRUE
    ELSE IF Head(a) # Head(b) THEN Head(a) < Head(b)
    ELSE StrLess(Tail(a), Tail(b))

\* sorted(...) of the part files, line 93: the place of each part number
\* among all the numbers of 1..MaxParts, by name.
NameRank ==
    [n \in 1..MaxParts |->
        1 + Cardinality({m \in 1..MaxParts :
                            StrLess(PartName(m), PartName(n))})]

NameOrder ==
    [r \in 1..MaxParts |-> CHOOSE n \in 1..MaxParts : NameRank[n] = r] \o << >>

\* sorted(list(part_dir.glob(part_pattern))) for the part files on disk.
SortedParts(files) == SelectSeq(NameOrder, LAMBDA n : n \in DOMAIN files)

\* split_file, lines 53-75: part i+1 holds the next part_size bytes, the
\* last part all that remains.
SplitFile(size, parts) ==
    LET part_size == size \div parts
    IN  [n \in 1..parts |->
            IF n = parts
            THEN SubSeq(Content(size), (n - 1) * part_size + 1, size)
            ELSE SubSeq(Content(size), (n - 1) * part_size + 1, n * part_size)]

\* Lines 103-107: the parts copied one after the other, in list order.
RECURSIVE CopyParts(_, _)
CopyParts(order, files) ==
    IF order = << >> THEN << >>
    ELSE files[Head(order)] \o CopyParts(Tail(order), files)

\* merge_file, lines 89-110.
MergeFile(files) == CopyParts(SortedParts(files), files)

InitFile ==
    /\ pc = "split_file_call"
    /\ file_size \in 0..MaxFileSize
    /\ num_parts \in 1..MaxParts
    /\ part_files = << >>
    /\ merged = << >>
    /\ IdleCore /\ IdleFeat /\ IdleLoad /\ IdleApi /\ IdleRest /\ IdleScan

Split_file ==
    /\ pc = "split_file_call"
    /\ part_files' = SplitFile(file_size, num_parts)
    /\ pc' = "split_file_done"
    /\ UNCHANGED << coreVars, featVars, loadVars, apiVars, restVars, scanVars,
                    file_size, num_parts, merged >>

Merge_file ==
    /\ pc = "split_file_done"
    /\ merged' = MergeFile(part_files)
    /\ pc' = "merge_file_done"
    /\ UNCHANGED << coreVars, featVars, loadVars, apiVars, restVars, scanVars,
                    file_size, num_parts, part_files >>

NextFile ==
    \/ Split_file
    \/ Merge_file

SpecFile == InitFile /\ [][NextFile]_vars


(***************************************************************************)
(* SpecRest: POST /verify-rest.  A confidence is the fraction num/den.     *)
(***************************************************************************)
Confidence(num, den) == [num |-> num, den |-> den]

VisionResult(is_valid, confidence, source) ==
    [is_valid_sleep_surface |-> is_valid, confidence |-> confidence,
     source |-> source]

\* _fallback_analysis, sleep_vision.py lines 202-212.
FallbackAnalysis(starts_with_data_image) ==
    VisionResult(starts_with_data_image,
                 IF starts_with_data_image THEN Confidence(5, 10)
                 ELSE Confidence(0, 10),
                 "fallback")

\* _local_sleep_analysis, lines 146-200; an exception ends in
\* _fallback_analysis("").
LocalSleepAnalysis(image) ==
    IF image = "raises" THEN FallbackAnalysis(FALSE)
    ELSE IF image = "small"
         THEN VisionResult(FALSE, Confidence(2, 10), "local")
    ELSE IF image \in {"dark", "bright"}
         THEN VisionResult(FALSE, Confidence(3, 10), "local")
    ELSE IF image = "odd_aspect"
         THEN VisionResult(FALSE, Confidence(4, 10), "local")
    ELSE VisionResult(TRUE, Confidence(6, 10), "local")

\* _parse_paligemma_response, lines 103-139.
ParsePaligemmaResponse(photo) ==
    LET total_keywords == photo.sleep_score + photo.non_sleep_score
    IN  IF photo.parse_raises THEN FallbackAnalysis(FALSE)
        ELSE IF total_keywords > 0
             THEN VisionResult(photo.sleep_score > photo.non_sleep_score,
                               Confidence(photo.sleep_score, total_keywords),
                               "paligemma")
        ELSE VisionResult(photo.mentions_sleep,
                          IF photo.mentions_sleep THEN Confidence(7, 10)
                          ELSE Confidence(3, 10),
                          "paligemma")

\* analyze_sleep_photo, lines 47-99.
AnalyzeSleepPhoto(photo) ==
    IF ~photo.prefix_ok
    THEN VisionResult(FALSE, Confidence(0, 10), "format")
    ELSE IF ~photo.decodable THEN FallbackAnalysis(photo.prefix_ok)
    ELSE IF photo.network = "no_key" THEN LocalSleepAnalysis(photo.image)
    ELSE IF photo.network = "error" THEN FallbackAnalysis(photo.prefix_ok)
    ELSE IF photo.network = "status_200" THEN ParsePaligemmaResponse(photo)
    ELSE LocalSleepAnalysis(photo.image)

\* A test that takes every result for a verified one.
IsVerifiedAlways(vision) == vision.confidence.den > 0

\* is_verified = vision_result['is_valid_sleep_surface'], main.py line 83
IsVerified(vision) == vision.is_valid_sleep_surface

\* confidence < 0.4, main.py line 98
ConfidenceTooLow(confidence) == 10 * confidence.num < 4 * confidence.den

\* args of the call with the staker fixed, whoever asks.
ApproveBonusArgsFixed(req) ==
    [staker_id |-> IF req.accountId = "bob.near" THEN "alice.near"
                   ELSE req.accountId]

\* args={"staker_id": request.accountId}, main.py line 136
ApproveBonusArgs(req) == [staker_id |-> req.accountId]

FunctionCall(method_name, args) ==
    [method_name |-> method_name, args |-> args, state |-> "sent",
     hash |-> "none"]

RestResponse(http, status, is_surface, hash) ==
    [http |-> http, status |-> status, isSleepingSurface |-> is_surface,
     transaction_hash |-> hash]

ImageKinds == {"small", "dark", "bright", "odd_aspect", "plain", "raises"}

DecodedPhoto(network, image) ==
    [NoPhoto EXCEPT !.prefix_ok = TRUE, !.decodable = TRUE,
                    !.network = network, !.image = image]

Photos ==
    {NoPhoto, [NoPhoto EXCEPT !.prefix_ok = TRUE]}
    \cup {DecodedPhoto(n, image) :
            n \in {"no_key", "other_status"}, image \in ImageKinds}
    \cup {DecodedPhoto("error", "plain")}
    \cup {[DecodedPhoto("status_200", "plain") EXCEPT
              !.sleep_score = a, !.non_sleep_score = b,
              !.mentions_sleep = m, !.parse_raises = r] :
            a \in 0..MaxKeywords, b \in 0..MaxKeywords,
            m \in BOOLEAN, r \in BOOLEAN}

InitRest ==
    /\ pc = "rest_call"
    /\ rest_request \in [accountId : {"alice.near", "bob.near"},
                         photo : Photos,
                         sleep_vision_available : BOOLEAN,
                         agent_configured : BOOLEAN]
    /\ vision_result = NoVision
    /\ contract_calls = << >>
    /\ rest_response = NoRestResponse
    /\ IdleCore /\ IdleFeat /\ IdleLoad /\ IdleApi /\ IdleFile /\ IdleScan

\* Step 1 of verify_rest, lines 77-116: "verified" or "failed", and the
\* vision result when the module could be imported.
StepOne(req) ==
    IF req.sleep_vision_available
    THEN LET vision == AnalyzeSleepPhoto(req.photo)
         IN  [vision |-> vision,
              outcome |-> IF ~IsVerified(vision) THEN "failed"
                          ELSE IF ConfidenceTooLow(vision.confidence)
                               THEN "failed"
                          ELSE "verified"]
    ELSE [vision |-> NoVision,
          outcome |-> IF req.photo.prefix_ok THEN "verified" ELSE "failed"]

\* verify_rest up to its await, lines 73-139: the answer "failed", the mock
\* answer of a server without agent account, or the contract call sent.
VerifyRest ==
    /\ pc = "rest_call"
    /\ LET one == StepOne(rest_request)
       IN  /\ vision_result' = one.vision
           /\ IF one.outcome = "failed"
              THEN /\ rest_response' = RestResponse(200, "failed", FALSE, "none")
                   /\ pc' = "rest_done"
                   /\ UNCHANGED contract_calls
              ELSE IF ~rest_request.agent_configured
              THEN /\ rest_response' =
                        RestResponse(200, "success", TRUE,
                                     "mock_tx_hash_for_testing")
                   /\ pc' = "rest_done"
                   /\ UNCHANGED contract_calls
              ELSE /\ contract_calls' =
                        Append(contract_calls,
                               FunctionCall("approve_bonus",
                                            ApproveBonusArgs(rest_request)))
                   /\ pc' = "rest_awaiting"
                   /\ UNCHANGED rest_response
    /\ UNCHANGED << coreVars, featVars, loadVars, apiVars, fileVars, scanVars,
                    rest_request >>

\* The transaction completes (nowait=False) and the handler answers with
\* its hash, lines 141-151.
ContractCompletes ==
    /\ pc = "rest_awaiting"
    /\ \E tx_hash \in {"tx_1", "tx_2"} :
         /\ contract_calls' =
                [contract_calls EXCEPT ![Len(contract_calls)] =
                    [@ EXCEPT !.state = "completed", !.hash = tx_hash]]
         /\ rest_response' = RestResponse(200, "success", TRUE, tx_hash)
    /\ pc' = "rest_done"
    /\ UNCHANGED << coreVars, featVars, loadVars, apiVars, fileVars, scanVars,
                    rest_request, vision_result >>

\* function_call raises: HTTPException(status_code=500), lines 152-155.
ContractFails ==
    /\ pc = "rest_awaiting"
    /\ contract_calls' =
           [contract_calls EXCEPT ![Len(contract_calls)] =
               [@ EXCEPT !.state = "failed"]]
    /\ rest_response' = RestResponse(500, "error", FALSE, "none")
    /\ pc' = "rest_done"
    /\ UNCHANGED << coreVars, featVars, loadVars, apiVars, fileVars, scanVars,
                    rest_request, vision_result >>

NextRest ==
    \/ VerifyRest
    \/ ContractCompletes
    \/ ContractFails

SpecRest == InitRest /\ [][NextRest]_vars


(***************************************************************************)
(* SpecSplit: DataFileManager.split_large_files on one file of data_dir.   *)
(* Only the sizes of the file and of its parts are kept.                   *)
(***************************************************************************)
MAX_FILE_SIZE_MB == 90

MAX_FILE_SIZE_BYTES == MAX_FILE_SIZE_MB * 1024 * 1024

\* size_mb > MAX_FILE_SIZE_MB, line 164, with size_mb = st_size / (1024 * 1024).
ExceedsLimit(size) == size > MAX_FILE_SIZE_BYTES

\* max(2, int(size_mb / MAX_FILE_SIZE_MB) + 1), line 167.
NumParts(size) == Max(2, size \div MAX_FILE_SIZE_BYTES + 1)

\* split_file, lines 53-73: the sizes of the parts written.
PartSizes(size, parts) ==
    LET part_size == size \div parts
    IN  [n \in 1..parts |->
            IF n = parts THEN size - (parts - 1) * part_size ELSE part_size]

\* Sizes at most MaxSlack bytes off a multiple of the limit.
FileSizes ==
    {q * MAX_FILE_SIZE_BYTES + d :
        q \in 0..MaxMultiples, d \in (-MaxSlack)..MaxSlack} \cap Nat

InitSplit ==
    /\ pc = "split_large_files_call"
    /\ csv_file \in [size : FileSizes, is_split_part : BOOLEAN]
    /\ force \in BOOLEAN
    /\ split_results = << >>
    /\ IdleCore /\ IdleFeat /\ IdleLoad /\ IdleApi /\ IdleFile /\ IdleRest

\* The loop body of split_large_files, lines 156-179.
Split_large_files ==
    /\ pc = "split_large_files_call"
    /\ IF csv_file.is_split_part
       THEN UNCHANGED split_results
       ELSE IF ExceedsLimit(csv_file.size) \/ force
            THEN split_results' =
                     Append(split_results,
                            [num_parts |-> NumParts(csv_file.size),
                             part_sizes |-> PartSizes(csv_file.size,
                                                      NumParts(csv_file.size))])
            ELSE UNCHANGED split_results
    /\ pc' = "split_large_files_done"
    /\ UNCHANGED << coreVars, featVars, loadVars, apiVars, fileVars, restVars,
                    csv_file, force >>

NextSplit == Split_large_files

SpecSplit == InitSplit /\ [][NextSplit]_vars

(***************************************************************************)
(* Properties.                                                             *)
(***************************************************************************)
InCall == pc \in {"loop", "sampled", "done"}

PoolSize == Len(other_chunks)

\* C1: with a pool of at least 2 other chunks the estimators return the sum
\* of the marginal contributions of the N passes divided by N: every pass
\* that is counted has added one term, and the sum is returned unclipped.
C1_MeanOfMarginals ==
    /\ (InCall /\ PoolSize >= 2) => marginal_count = i
    /\ (pc = "done" /\ PoolSize >= 2) =>
          /\ marginal_count = num_coalitions
          /\ num_coalitions >= 1
          /\ result = [num |-> marginal_sum, den |-> num_coalitions]

C1_Witness ==
    /\ pc = "done"
    /\ PoolSize >= 2
    /\ num_coalitions >= 2
    /\ marginal_sum < 0
    /\ result.num < 0

NoDuplicates(lst) ==
    \A a, b \in 1..Len(lst) : a # b => ~ChunkEq(lst[a], lst[b])

\* C2: the sampled coalition holds no chunk twice and never holds the target
\* chunk, whoever calls the estimator.
C2_CoalitionExcludesTarget ==
    InCall =>
        /\ NoDuplicates(coalition)
        /\ ~InList(target_chunk, coalition)

\* C3: in within-session mode the test chunk is a pool chunk outside the
\* coalition and is not the target, so neither utility is scored on a chunk
\* of its own training list.
C3_TestChunkHeldOut ==
    (InCall /\ mode = "within" /\ eval_with # NoEval) =>
        LET test_chunk == eval_with.test[1]
        IN  /\ eval_without.test = << test_chunk >>
            /\ InList(test_chunk, other_chunks)
            /\ ~InList(test_chunk, coalition)
            /\ ~ChunkEq(test_chunk, target_chunk)
            /\ ~InList(test_chunk, eval_without.train)
            /\ ~InList(test_chunk, eval_with.train)

\* The pass that is about to start can draw a coalition of s chunks.
CanDraw(s) ==
    \/ ENABLED (coalition_size' = s /\ WithinSample)
    \/ ENABLED (coalition_size' = s /\ BetweenSample)

AtLoopHead == pc = "loop" /\ i < num_coalitions

SizeDrawn == InCall /\ coalition # << >>

\* C4 as stated: in both modes the coalition size lies in 1..pool size and
\* every size of 1..pool size, the full pool included, can be drawn.
C4_AnySizeUpToPool ==
    /\ SizeDrawn => coalition_size \in 1..PoolSize
    /\ AtLoopHead => \A s \in 1..PoolSize : CanDraw(s)

\* C4, amended: in between-session mode the sizes that can be drawn are
\* exactly 1..pool size; in within-session mode they are exactly
\* 1..pool size - 1, so the full pool is never drawn there.
C4_CoalitionSizeRange ==
    /\ SizeDrawn =>
          /\ Len(coalition) = coalition_size
          /\ coalition_size \in 1..PoolSize
          /\ mode = "within" => coalition_size <= PoolSize - 1
    /\ AtLoopHead =>
          \A s \in 0..(PoolSize + 1) :
              CanDraw(s) <=> /\ 1 <= s
                             /\ s <= PoolSize
                             /\ mode = "within" => s <= PoolSize - 1

C4_Witness ==
    /\ pc = "sampled"
    /\ mode = "within"
    /\ PoolSize >= 3
    /\ coalition_size = PoolSize - 1

\* C5: in both modes a target with fewer than 2 other chunks gets exactly
\* 0.0 and no coalition is evaluated.
C5_FewPeersReturnZero ==
    (pc = "done" /\ PoolSize < 2) =>
        /\ result.num = 0
        /\ evaluations = 0

\* C6: with an empty training list _train_and_evaluate returns -1.0 whatever
\* the test list is, and neither extracts features nor fits a model.
C6_EmptyTrainingSentinel ==
    (pc = "train_done" /\ train_chunks = << >>) =>
        /\ utility.kind = "return"
        /\ utility.value = -1
        /\ utility.extracted = 0
        /\ ~utility.fitted

C6_Witness ==
    /\ pc = "train_done"
    /\ train_chunks = << >>
    /\ test_chunks # << >>
    /\ ChunkRows(test_chunks[1]) > 0
    /\ utility.value = -1

NoUsableRows(lst) == \A k \in 1..Len(lst) : ChunkRows(lst[k]) = 0

\* C7: no exception leaves _train_and_evaluate; a call in which a statement
\* raised, or whose training or test list has no usable feature rows,
\* returns -1.0.
C7_NoExceptionEscapes ==
    pc = "train_done" =>
        /\ utility.kind = "return"
        /\ (\/ utility.raised # "none"
            \/ NoUsableRows(train_chunks)
            \/ NoUsableRows(test_chunks)) => utility.value = -1

C7_Witness ==
    /\ pc = "train_done"
    /\ utility.raised = "predict"
    /\ utility.fitted
    /\ utility.kind = "return"
    /\ utility.value = -1

\* C8: in between-session mode both utilities of a pass are scored on the
\* whole session-B list; the session-A chunks used are the coalition and the
\* target, as training data, and none of them is in the evaluation set.
C8_BetweenScoresOnOtherSession ==
    (InCall /\ mode = "between" /\ eval_with # NoEval) =>
        /\ eval_without.test = arg_test_chunks
        /\ eval_with.test = arg_test_chunks
        /\ eval_without.train = coalition
        /\ eval_with.train = coalition \o << target_chunk >>
        /\ \A k \in 1..Len(coalition) : InList(coalition[k], other_chunks)
        /\ \A k \in 1..Len(arg_chunks) :
              /\ ~InList(arg_chunks[k], eval_without.test)
              /\ ~InList(arg_chunks[k], eval_with.test)

C8_Witness ==
    /\ pc = "loop"
    /\ mode = "between"
    /\ eval_with # NoEval
    /\ Len(arg_test_chunks) >= 2
    /\ Len(coalition) >= 2

\* Stride j of a table of n rows: rows j * size up to the next stride or the
\* end of the table.
StrideRows(j, size, n) ==
    IF (j + 1) * size <= n THEN size ELSE n - j * size

Strides(size, n) == {j \in 0..n : j * size < n}

\* C9: _split_into_chunks returns a chunk for a stride exactly when the
\* stride has at least 80% of the nominal chunk size.
C9_KeptIffEightyPercent ==
    pc = "split_done" =>
        /\ \A j \in Strides(chunk_size_samples, data_len) :
              (\E k \in 1..Len(chunks) :
                    chunks[k].start_idx = j * chunk_size_samples)
              <=> 10 * StrideRows(j, chunk_size_samples, data_len)
                      >= 8 * chunk_size_samples
        /\ \A k \in 1..Len(chunks) :
              \E j \in Strides(chunk_size_samples, data_len) :
                    /\ chunks[k].start_idx = j * chunk_size_samples
                    /\ chunks[k].rows
                           = StrideRows(j, chunk_size_samples, data_len)

\* A table whose last stride has exactly 80% of the chunk size, kept.
C9_Witness ==
    /\ pc = "split_done"
    /\ data_len > chunk_size_samples
    /\ 10 * (data_len % chunk_size_samples) = 8 * chunk_size_samples
    /\ Len(chunks) = data_len \div chunk_size_samples + 1

\* C10: the chunks are in table order and pairwise disjoint, chunk number k
\* covers rows [k * S, min((k + 1) * S, n)), and chunk_id is the chunk's
\* position in the returned list, counted from 0.
C10_OrderedAndNumbered ==
    pc = "split_done" =>
        /\ \A k \in 1..Len(chunks) :
              /\ chunks[k].chunk_id = k - 1
              /\ chunks[k].start_idx = (k - 1) * chunk_size_samples
              /\ chunks[k].start_idx + chunks[k].rows
                     = Min(k * chunk_size_samples, data_len)
              /\ chunks[k].rows > 0
        /\ \A k, l \in 1..Len(chunks) :
              k < l => chunks[k].start_idx + chunks[k].rows
                           <= chunks[l].start_idx

\* Several chunks, the last one shorter than the stride.
C10_Witness ==
    /\ pc = "split_done"
    /\ Len(chunks) >= 3
    /\ chunks[Len(chunks)].rows < chunk_size_samples
    /\ chunks[Len(chunks)].chunk_id = Len(chunks) - 1

(***************************************************************************)
(* C11: whatever the lengths of the signal and target series of the chunks *)
(* passed to _train_and_evaluate, the stacked feature matrix and the       *)
(* target vector built from them have the same number of rows, on the      *)
(* training side and on the test side: a chunk whose two window counts     *)
(* differ adds to neither.                                                 *)
(***************************************************************************)
C11_FeaturesAndTargetsAligned ==
    pc = "train_done" =>
        /\ utility.arrays.train_features = utility.arrays.train_glucose
        /\ utility.arrays.test_features = utility.arrays.test_glucose

\* Both pairs of arrays were built, from lists that hold a chunk with one
\* signal window and no target window next to a chunk with one of each.
WindowCountsDiffer(c) ==
    ExtractSimpleFeatures(c.rows) # ChunkGlucose(c.glucose_rows)

C11_Witness ==
    /\ pc = "train_done"
    /\ utility.arrays.sides = 2
    /\ Len(train_chunks) = 2
    /\ WindowCountsDiffer(train_chunks[1])
    /\ ExtractSimpleFeatures(train_chunks[1].rows) > 0
    /\ utility.arrays.train_features = 1
    /\ utility.arrays.test_features = 1

(***************************************************************************)
(* C12: _extract_simple_features tiles the L samples of a signal into      *)
(* windows of 60 that do not overlap and keeps a window iff it holds at    *)
(* least 30 samples, so the returned matrix has floor(L / 60) rows, plus   *)
(* one when L mod 60 >= 30; and it has 8 columns (mean, std, min and max   *)
(* of each of the two channels), also when it has no row.                  *)
(***************************************************************************)
C12_RowsAndColumns ==
    pc = "extract_done" =>
        /\ features.rows = (fnirs_len \div 60)
                           + (IF fnirs_len % 60 >= 30 THEN 1 ELSE 0)
        /\ features.cols = 8

\* A signal of two full windows and a last window of exactly half the size.
C12_Witness ==
    /\ pc = "extract_done"
    /\ fnirs_len = 150
    /\ features.rows = 3

TargetHasNoWindow ==
    /\ target_chunk # NoChunk
    /\ ExtractSimpleFeatures(target_chunk.rows) = 0

(***************************************************************************)
(* C13: a target chunk too short for any window has an empty 0x8 feature   *)
(* matrix and is skipped by _train_and_evaluate, so in every pass the      *)
(* utility of the coalition with the target equals the utility of the      *)
(* coalition alone, the running sum stays 0 and the estimator returns      *)
(* exactly 0, without raising.                                             *)
(***************************************************************************)
C13_NoWindowTargetScoresZero ==
    TargetHasNoWindow =>
        /\ pc # "raised"
        /\ FeatureShape(target_chunk.rows) = [rows |-> 0, cols |-> 8]
        /\ eval_with.value = eval_without.value
        /\ shapley_value = 0
        /\ pc = "done" => (result.num = 0 /\ result.den >= 1)

\* The scoring API's target of one sample, after passes whose last one was
\* scored by a fitted model.
C13_Witness ==
    /\ pc = "done"
    /\ caller = "api"
    /\ TargetHasNoWindow
    /\ marginal_count = num_coalitions
    /\ InList(target_chunk, eval_with.train)
    /\ eval_with.value = 1
    /\ result.num = 0

ValidCall ==
    /\ Len(arg_chunks) >= 1
    /\ target_chunk_id \in 0..(Len(arg_chunks) - 1)
    /\ num_coalitions >= 1

InputsKept ==
    pc \in {"loop", "sampled"} =>
        /\ arg_chunks' = arg_chunks
        /\ arg_test_chunks' = arg_test_chunks
        /\ other_chunks' = other_chunks
        /\ target_chunk' = target_chunk
        /\ pc = "sampled" => (coalition' = coalition /\ test_set' = test_set)

(***************************************************************************)
(* C15: while an estimator runs, its inputs stay as they were passed: the  *)
(* session lists, the pool and the target chunk keep their chunks, order   *)
(* and fields, and building coalition + [target] leaves the sampled        *)
(* coalition and the test set as they were.                                *)
(***************************************************************************)
C15_InputsUnchanged == [][InputsKept]_vars

\* A between-session call returned after two passes over a pool of two.
C15_Witness ==
    /\ pc = "done"
    /\ mode = "between"
    /\ Len(arg_chunks) = 3
    /\ Len(arg_test_chunks) >= 1
    /\ marginal_count = 2
    /\ Len(coalition) = 2
    /\ eval_without.train = coalition
    /\ eval_with.train = coalition \o << target_chunk >>

TableUnusable(table) ==
    table.kind \in {"missing", "no_columns"} \/ table.rows = 0

EstimatorEntered == caller # "none"

(***************************************************************************)
(* C16: load_and_chunk_data fails with an error when a session table is    *)
(* missing, lacks a required column or has no data row, so no estimator is *)
(* ever entered with a chunk list that comes from an empty table.          *)
(***************************************************************************)
C16_EmptyTableFailsLoading ==
    /\ (pc # "load_call"
          /\ (TableUnusable(tables.session1) \/ TableUnusable(tables.session2)))
         => loaded.status \in {"FileNotFoundError", "ValueError"}
    /\ EstimatorEntered =>
          ~(TableUnusable(tables.session1) \/ TableUnusable(tables.session2))

(***************************************************************************)
(* C17: every response of POST /api/score-contribution with status 200     *)
(* carries a contribution_score of 0..100 and reward_points of 0 or more,  *)
(* whether the score comes from the Shapley value or from the heuristic.   *)
(***************************************************************************)
C17_ScoreAndRewardInRange ==
    (pc = "score_done" /\ response.status = 200) =>
        /\ response.contribution_score \in 0..100
        /\ response.reward_points >= 0

\* A Shapley value below the clipping range, answered with the score of the
\* quality bonus alone.
C17_Witness ==
    /\ pc = "score_done"
    /\ response.status = 200
    /\ response.path = "shapley"
    /\ 10 * response.user_shapley_value < -ShapleyUnit
    /\ request.points >= 10
    /\ response.contribution_score = QualityBonus(request.points)
    /\ response.reward_points = 8 * response.contribution_score

RECURSIVE TotalSize(_, _)
TotalSize(files, n) ==
    IF n = 0 THEN 0 ELSE Len(files[n]) + TotalSize(files, n - 1)

(***************************************************************************)
(* C18: for every file and every num_parts >= 1, the sizes of the parts    *)
(* split_file writes add up to the size of the file, and merge_file gives  *)
(* back the bytes of the file, each once and in their order.               *)
(***************************************************************************)
C18_SplitMergeRoundTrip ==
    /\ pc \in {"split_file_done", "merge_file_done"} =>
          /\ DOMAIN part_files = 1..num_parts
          /\ TotalSize(part_files, num_parts) = file_size
    /\ pc = "merge_file_done" => merged = Content(file_size)

\* The approve_bonus call of this request: sent for the request's account,
\* completed, and its hash is the one the response carries.
ApprovedOnChain ==
    /\ Len(contract_calls) = 1
    /\ contract_calls[1].method_name = "approve_bonus"
    /\ contract_calls[1].args = [staker_id |-> rest_request.accountId]
    /\ contract_calls[1].state = "completed"
    /\ rest_response.transaction_hash = contract_calls[1].hash

PhotoVerified == StepOne(rest_request).outcome = "verified"

C20_CallOnlyAfterVisionChecks ==
    /\ Len(contract_calls) <= 1
    /\ (pc \in {"rest_awaiting", "rest_done"}
          /\ rest_request.sleep_vision_available) =>
          /\ contract_calls # << >> =>
                /\ vision_result.is_valid_sleep_surface
                /\ 10 * vision_result.confidence.num
                       >= 4 * vision_result.confidence.den
          /\ (\/ ~vision_result.is_valid_sleep_surface
              \/ 10 * vision_result.confidence.num
                     < 4 * vision_result.confidence.den) =>
                /\ pc = "rest_done"
                /\ rest_response.status = "failed"
                /\ ~rest_response.isSleepingSurface
                /\ contract_calls = << >>

\* A photo the local analysis rejects with a confidence of exactly 0.4, on a
\* server that could have made the call.
C20_Witness ==
    /\ pc = "rest_done"
    /\ rest_request.sleep_vision_available
    /\ rest_request.agent_configured
    /\ ~vision_result.is_valid_sleep_surface
    /\ vision_result.confidence = [num |-> 4, den |-> 10]
    /\ rest_response.status = "failed"
    /\ contract_calls = << >>

(***************************************************************************)
(* C21: analyze_sleep_photo reports a valid sleep surface only for a photo *)
(* whose payload was decoded and analysed; a "data:image/" URI whose       *)
(* payload cannot be decoded is never reported valid with a confidence of  *)
(* at least 0.4, and verify_rest approves no bonus for it.                 *)
(***************************************************************************)
C21_UndecodableNeverApproved ==
    (pc \in {"rest_awaiting", "rest_done"}
       /\ rest_request.sleep_vision_available) =>
        /\ vision_result.is_valid_sleep_surface =>
              /\ rest_request.photo.decodable
              /\ vision_result.source \in {"local", "paligemma"}
        /\ (rest_request.photo.prefix_ok /\ ~rest_request.photo.decodable) =>
              /\ ~(/\ vision_result.is_valid_sleep_surface
                   /\ 10 * vision_result.confidence.num
                          >= 4 * vision_result.confidence.den)
              /\ contract_calls = << >>
              /\ rest_response.status # "success"

(***************************************************************************)
(* C22: a score-contribution request with blank fnirs_data, or with a      *)
(* glucose_level outside 3.0..15.0 mmol/L, is answered with status 400,    *)
(* and neither preprocessing nor a scoring path is started for it.         *)
(***************************************************************************)
C22_InvalidRequestAnswered400 ==
    (/\ pc = "score_done"
     /\ \/ request.fnirs_empty
        \/ request.glucose_level < 30
        \/ request.glucose_level > 150) =>
        /\ response.status = 400
        /\ response.path = "none"

\* The Data Shapley step of the request did not give a value: one of its
\* calls raised, or neither session has 3 chunks.
ShapleyFailed ==
    \/ request.shapley_raises # "none"
    \/ (request.session1_len < 3 /\ request.session2_len < 3)

(***************************************************************************)
(* C23: when the Data Shapley step of a valid, preprocessed request fails  *)
(* (loading, parsing, the estimator, or no session of 3 chunks), the       *)
(* answer is 200 with a heuristic score; and a Shapley value that was      *)
(* computed is the mean of one value per session of at least 3 chunks.     *)
(***************************************************************************)
C23_ShapleyFailureAnswered200 ==
    (/\ pc = "score_done"
     /\ ~request.fnirs_empty
     /\ request.glucose_level \in 30..150
     /\ request.preprocess_ok) =>
        /\ ShapleyFailed =>
              /\ response.status = 200
              /\ response.path = "heuristic"
        /\ ~ShapleyFailed =>
              /\ response.status = 200
              /\ response.path = "shapley"
              /\ response.simulations =
                     (IF request.session1_len >= 3 THEN 1 ELSE 0)
                     + (IF request.session2_len >= 3 THEN 1 ELSE 0)
              /\ response.simulations * response.user_shapley_value =
                     (IF request.session1_len >= 3
                      THEN request.session_values[1] ELSE 0)
                     + (IF request.session2_len >= 3
                        THEN request.session_values[2] ELSE 0)

(***************************************************************************)
(* C24: in a response scored from the Shapley value, the Shapley part is   *)
(* an integer of 0..80, 0 for every value of at most -0.1, 80 for every    *)
(* value of at least 0.2, and no smaller than the part of any smaller      *)
(* value; the quality bonus is an integer of 0..20; and the contribution   *)
(* score is their sum kept within 0..100.                                  *)
(***************************************************************************)
C24_ClipAndScale ==
    (pc = "score_done" /\ response.path = "shapley") =>
        LET v == response.user_shapley_value
            part == ShapleyScore(v)
            bonus == QualityBonus(request.points)
        IN  /\ part \in 0..80
            /\ 10 * v <= -ShapleyUnit => part = 0
            /\ 10 * v >= 2 * ShapleyUnit => part = 80
            /\ \A w \in ShapleyValues : w <= v => ShapleyScore(w) <= part
            /\ bonus \in 0..20
            /\ response.contribution_score =
                   (IF part + bonus > 100 THEN 100
                    ELSE IF part + bonus < 0 THEN 0 ELSE part + bonus)

\* Values on both sides of the clipping range, each answered with a full
\* set of 100 data points: 17 points for the first, 97 for the second.
C24_Witness ==
    /\ pc = "score_done"
    /\ response.path = "shapley"
    /\ request.points = 100
    /\ \/ /\ 10 * response.user_shapley_value < -ShapleyUnit
          /\ response.contribution_score = 17
       \/ /\ 10 * response.user_shapley_value > 2 * ShapleyUnit
          /\ response.contribution_score = 97

\* The multiplier of a contribution score.
TierMultiplier(score) ==
    IF score >= 80 THEN 15
    ELSE IF score >= 60 THEN 12
    ELSE IF score >= 40 THEN 10
    ELSE 8

(***************************************************************************)
(* C25: the reward_points of a response are its contribution_score times   *)
(* 15 (score of 80 or more), 12 (60..79), 10 (40..59) or 8 (below 40);     *)
(* they lie in 0..1500, and no lower score of 0..100 earns more points.    *)
(***************************************************************************)
C25_RewardTiersMonotone ==
    (pc = "score_done" /\ response.status = 200) =>
        /\ response.reward_points =
               TierMultiplier(response.contribution_score)
               * response.contribution_score
        /\ response.reward_points \in 0..1500
        /\ \A lower \in 0..100 :
              lower <= response.contribution_score =>
                  RewardPoints(lower) <= response.reward_points
        /\ \A higher \in 0..100 :
              higher >= response.contribution_score =>
                  RewardPoints(higher) >= response.reward_points

\* A score on the first step of a tier: 40, 60 or 80.
C25_Witness ==
    /\ pc = "score_done"
    /\ response.status = 200
    /\ response.contribution_score \in {40, 60, 80}
    /\ response.reward_points \in {400, 720, 1200}

(***************************************************************************)
(* C26: both utilities of a pass are numbers of at least -1.0, so their    *)
(* difference lies in -2..2; and when no chunk of the evaluation set gives *)
(* a usable row both are -1.0 and the difference is 0.                     *)
(***************************************************************************)
C26_SentinelIsWorstUtility ==
    eval_with # NoEval =>
        /\ ~IsNaN(eval_without.value)
        /\ ~IsNaN(eval_with.value)
        /\ eval_without.value >= Sentinel
        /\ eval_with.value >= Sentinel
        /\ (eval_with.value - eval_without.value) \in -2..2
        /\ AppendedChunks(eval_with.test) = << >> =>
              /\ eval_without.value = Sentinel
              /\ eval_with.value = Sentinel

(***************************************************************************)
(* C27: split_large_files splits a file if and only if it is not itself a  *)
(* split part and its size exceeds the limit of 90 MB or force is set; the *)
(* number of parts is max(2, floor(size / limit) + 1); and every part      *)
(* written, the last one included, has at most MAX_FILE_SIZE_BYTES bytes.  *)
(***************************************************************************)
C27_PartsWithinLimit ==
    pc = "split_large_files_done" =>
        /\ split_results # << >> <=>
              /\ ~csv_file.is_split_part
              /\ (csv_file.size > 90 * 1024 * 1024 \/ force)
        /\ split_results # << >> =>
              LET parts == split_results[1].num_parts
                  quotient == csv_file.size \div (90 * 1024 * 1024)
              IN  /\ Len(split_results) = 1
                  /\ parts = (IF quotient + 1 > 2 THEN quotient + 1 ELSE 2)
                  /\ DOMAIN split_results[1].part_sizes = 1..parts
                  /\ \A n \in 1..parts :
                        split_results[1].part_sizes[n] <= MAX_FILE_SIZE_BYTES

====
